---- MODULE Spec2Model ----
(***************************************************************************)
(* Uniform order form (src/app.py): a Streamlit script that is evaluated   *)
(* top to bottom on every user interaction.  The state is the session      *)
(* state (entries, show_success, reset_trigger, current_applicant), the    *)
(* values the keyed widgets hold between evaluations, and what the last    *)
(* evaluation rendered.  One action per user interaction; every action     *)
(* runs the whole script, including the st.rerun() a handler ends with.    *)
(*                                                                         *)
(* Text is a sequence of Unicode code points.  Display names are strings.  *)
(* The placeholder option of the source is written in ASCII here.          *)
(***************************************************************************)
EXTENDS Integers, Sequences, FiniteSets, TLC

\* Cap on st.session_state.reset_trigger (bumped by every add, finish, reset).
MaxTrigger == 2

\* Longest text given to normalize_digits on its own.
MaxLen == 3

\* The first option of every dropdown (src/app.py:72,78,84).
Placeholder == "--- SELECT ---"

\* Python's None, for an identifier and for a display name.
NoneId == 0 - 1
NoneName == "<None>"

Range(s) == {s[i] : i \in 1..Len(s)}

-----------------------------------------------------------------------------
(* Python string built-ins, on sequences of code points.                   *)

\* Code points of the characters the form's text fields are given.
\* 48..57 ASCII digits, 65296..65305 full-width digits, 178 superscript two,
\* 45 hyphen-minus, 97 "a", 83 "S", 32 space, 12288 ideographic space.
IsFullWidthDigit(ch) == 65296 <= ch /\ ch <= 65305

\* Unicode category Nd: what int() reads as a decimal digit.
IsDecimalChar(ch) == (48 <= ch /\ ch <= 57) \/ IsFullWidthDigit(ch)

\* str.isdigit() per character: Nd and the other Numeric_Type=Digit characters
\* (superscript digits 178, 179, 185).
IsDigitChar(ch) == IsDecimalChar(ch) \/ ch \in {178, 179, 185}

IsSpaceChar(ch) == ch \in {9, 10, 13, 32, 12288}

\* unicodedata.normalize("NFKC", ch) for a full-width digit.
NFKC(ch) == IF IsFullWidthDigit(ch) THEN ch - 65296 + 48 ELSE ch

\* str.isdigit(): non-empty and every character a digit.
str_isdigit(s) == s # <<>> /\ \A i \in 1..Len(s) : IsDigitChar(s[i])

DecimalValue(ch) == IF IsFullWidthDigit(ch) THEN ch - 65296 ELSE ch - 48

RECURSIVE DecimalNumber(_)
DecimalNumber(s) ==
    IF s = <<>> THEN 0
    ELSE 10 * DecimalNumber(SubSeq(s, 1, Len(s) - 1)) + DecimalValue(s[Len(s)])

\* int(s): an optional sign, then one or more decimal digits; anything else
\* raises ValueError (ok = FALSE).
int(s) ==
    LET signed == s # <<>> /\ s[1] \in {43, 45}
        digits == IF signed THEN Tail(s) ELSE s
        ok     == digits # <<>> /\ \A i \in 1..Len(digits) : IsDecimalChar(digits[i])
    IN  [ok    |-> ok,
         value |-> IF ~ok THEN 0
                   ELSE IF signed /\ s[1] = 45 THEN 0 - DecimalNumber(digits)
                   ELSE DecimalNumber(digits)]

\* str.strip(): leading and trailing whitespace removed.
RECURSIVE str_strip(_)
str_strip(s) ==
    IF s = <<>> THEN s
    ELSE IF IsSpaceChar(s[1]) THEN str_strip(Tail(s))
    ELSE IF IsSpaceChar(s[Len(s)]) THEN str_strip(SubSeq(s, 1, Len(s) - 1))
    ELSE s

\* list.index(x): 0-based position of the first occurrence.
list_index(l, x) == (CHOOSE i \in 1..Len(l) : l[i] = x /\ \A j \in 1..(i - 1) : l[j] # x) - 1

-----------------------------------------------------------------------------
(* Helpers of the script.                                                  *)

\* The range test leaves out the full-width zero.
normalize_digits_mut(s) ==
    [i \in 1..Len(s) |->
        IF IsFullWidthDigit(s[i]) /\ s[i] # 65296 THEN NFKC(s[i]) ELSE s[i]]

normalize_digits(s) ==
    [i \in 1..Len(s) |-> IF IsFullWidthDigit(s[i]) THEN NFKC(s[i]) ELSE s[i]]

\* df[df[col] == val]
Filter(df, col, val) ==
    LET Test(r) == r[col] = val IN SelectSeq(df, Test)

\* The names are listed from the last row to the first.
create_dropdown_options_mut(df, id_col, name_col, include_blank) ==
    IF df = <<>>
    THEN IF include_blank THEN <<Placeholder>> ELSE <<>>
    ELSE LET names == [i \in 1..Len(df) |-> df[Len(df) + 1 - i][name_col]]
         IN  IF include_blank THEN <<Placeholder>> \o names ELSE names

create_dropdown_options(df, id_col, name_col, include_blank) ==
    IF df = <<>>
    THEN IF include_blank THEN <<Placeholder>> ELSE <<>>
    ELSE LET names == [i \in 1..Len(df) |-> df[i][name_col]]
         IN  IF include_blank THEN <<Placeholder>> \o names ELSE names

\* The identifier is taken from the last matching row.
get_selected_id_mut(df, id_col, name_col, selected_name) ==
    IF selected_name = Placeholder \/ selected_name = NoneName
    THEN NoneId
    ELSE LET matching_rows == Filter(df, name_col, selected_name)
         IN  IF matching_rows # <<>>
             THEN matching_rows[Len(matching_rows)][id_col]
             ELSE NoneId

get_selected_id(df, id_col, name_col, selected_name) ==
    IF selected_name = Placeholder \/ selected_name = NoneName
    THEN NoneId
    ELSE LET matching_rows == Filter(df, name_col, selected_name)
         IN  IF matching_rows # <<>> THEN matching_rows[1][id_col] ELSE NoneId

-----------------------------------------------------------------------------
(* Master data: the five CSV tables, read once (load_master_data).         *)

Row2(id_col, name_col, id, name) == (id_col :> id) @@ (name_col :> name)
Row3(id_col, name_col, fk_col, id, name, fk) ==
    (id_col :> id) @@ (name_col :> name) @@ (fk_col :> fk)

Applicant(id, name) == Row2("ap_id", "ap_name", id, name)
Location(id, name)  == Row2("location_id", "location_name", id, name)
Pattern(id, name)   == Row2("pattern_id", "pattern_name", id, name)
Uniform(id, name, pattern_id) ==
    Row3("uniform_id", "uniform_name", "pattern_id", id, name, pattern_id)
Size(id, name, uniform_id) ==
    Row3("size_id", "size_name", "uniform_id", id, name, uniform_id)

\* Two applicants; one pattern with a uniform in one size, one pattern
\* without uniforms.
MasterDistinct ==
    [applicants |-> <<Applicant(1, "Tanaka"), Applicant(2, "Sato")>>,
     locations  |-> <<Location(1, "HQ")>>,
     patterns   |-> <<Pattern(1, "Summer"), Pattern(2, "Winter")>>,
     uniforms   |-> <<Uniform(1, "Shirt", 1)>>,
     sizes      |-> <<Size(1, "M", 1)>>]

\* Two patterns offer a uniform of the same name, each in a size of the same
\* name; two applicants share a name.
MasterSameNames ==
    [applicants |-> <<Applicant(1, "Tanaka"), Applicant(2, "Tanaka")>>,
     locations  |-> <<Location(1, "HQ")>>,
     patterns   |-> <<Pattern(1, "Summer"), Pattern(2, "Winter")>>,
     uniforms   |-> <<Uniform(1, "Shirt", 1), Uniform(2, "Shirt", 2)>>,
     sizes      |-> <<Size(1, "M", 1), Size(2, "M", 2)>>]

\* One pattern with two uniforms that come in a size of the same name.
MasterSameSizes ==
    [applicants |-> <<Applicant(1, "Tanaka")>>,
     locations  |-> <<Location(1, "HQ")>>,
     patterns   |-> <<Pattern(1, "Summer")>>,
     uniforms   |-> <<Uniform(1, "Shirt", 1), Uniform(2, "Pants", 1)>>,
     sizes      |-> <<Size(1, "M", 1), Size(2, "M", 2)>>]

MasterSnapshots == {MasterDistinct, MasterSameNames, MasterSameSizes}

\* What the user types into the quantity field: nothing, "0", "1" followed by
\* a full-width "2", a superscript two, "-1".
QuantityTexts == {<<>>, <<48>>, <<49, 65298>>, <<178>>, <<45, 49>>}

\* What the user types into the user-name field: nothing, a space, and "S"
\* between an ideographic space and a space.
UserNameTexts == {<<>>, <<32>>, <<12288, 83, 32>>}

\* The files in the order load_master_data reads them, and what pd.read_csv
\* meets: a readable file, no file (FileNotFoundError), or a file it cannot
\* read or parse (any other exception).
FileOrder == <<"applicant_name", "locations", "pattern", "size", "uniforms">>
FileStates == {"ok", "missing", "unreadable"}
AllFilesOk == [n \in Range(FileOrder) |-> "ok"]

\* A read that fails yields an empty table and the script goes on.
load_master_data_mut(fs, m) ==
    IF \A n \in Range(FileOrder) : fs[n] = "ok"
    THEN [outcome |-> "loaded", tables |-> m]
    ELSE [outcome |-> "loaded",
          tables |-> [applicants |-> IF fs["applicant_name"] = "ok" THEN m.applicants ELSE <<>>,
                      locations  |-> IF fs["locations"] = "ok" THEN m.locations ELSE <<>>,
                      patterns   |-> IF fs["pattern"] = "ok" THEN m.patterns ELSE <<>>,
                      sizes      |-> IF fs["size"] = "ok" THEN m.sizes ELSE <<>>,
                      uniforms   |-> IF fs["uniforms"] = "ok" THEN m.uniforms ELSE <<>>]]

\* load_master_data with the files in state fs and contents m: the five
\* tables, or the outcome of the first read that fails: "stopped" (st.error
\* and st.stop) for a missing file, "exception" for an exception the except
\* clause does not catch.  Nothing is cached unless the call returns.
load_master_data(fs, m) ==
    LET failed == {i \in 1..Len(FileOrder) : fs[FileOrder[i]] # "ok"}
        first  == CHOOSE i \in failed : \A j \in failed : i <= j
        NoTables == [applicants |-> <<>>, locations |-> <<>>, patterns |-> <<>>,
                     sizes |-> <<>>, uniforms |-> <<>>]
    IN  IF failed = {} THEN [outcome |-> "loaded", tables |-> m]
        ELSE IF fs[FileOrder[first]] = "missing"
        THEN [outcome |-> "stopped", tables |-> NoTables]
        ELSE [outcome |-> "exception", tables |-> NoTables]

-----------------------------------------------------------------------------
VARIABLES
    applicants, locations, patterns, sizes, uniforms,   \* master data
    entries, show_success, reset_trigger, current_applicant, \* st.session_state
    widgets,     \* the values of the widgets keyed "<name>_<reset_trigger>"
    page,        \* what the last evaluation of the script rendered
    exception,   \* the last evaluation ended in an uncaught exception
    files,       \* the state of the five CSV files under files/
    probe        \* a helper applied to an argument outside the script, and its result

master  == <<applicants, locations, patterns, sizes, uniforms>>
session == <<entries, show_success, reset_trigger, current_applicant>>
vars    == <<master, session, widgets, page, exception, files, probe>>

NoProbe == [fn |-> "none"]

\* A widget key that has not been rendered yet.
NoWidget == [options |-> <<>>, index |-> 0]
NoWidgets ==
    [applicant |-> NoWidget, location |-> NoWidget, pattern |-> NoWidget,
     uniform |-> NoWidget, size |-> NoWidget,
     quantity |-> <<>>, user_name |-> <<>>]

\* st.selectbox(label, options, index, key): the widget keeps the chosen
\* position while label, options, index and key stay the same; with any of
\* them changed it is a new widget showing options[index].
selectbox(options, index, held) ==
    IF held.options = options THEN held ELSE [options |-> options, index |-> index]

selected(w) == w.options[w.index + 1]

-----------------------------------------------------------------------------
(* The form part of the script, lines 117-189.                             *)

\* The remembered applicant is ignored.
default_applicant_index_mut(remembered, applicant_options) == 0

default_applicant_index(remembered, applicant_options) ==
    IF remembered # NoneName /\ remembered \in Range(applicant_options)
    THEN list_index(applicant_options, remembered)
    ELSE 0

\* The uniforms are not filtered by the selected pattern.
uniform_filtered_mut(selected_pattern_id) ==
    IF selected_pattern_id # NoneId THEN uniforms ELSE <<>>

uniform_filtered(selected_pattern_id) ==
    IF selected_pattern_id # NoneId
    THEN Filter(uniforms, "pattern_id", selected_pattern_id)
    ELSE <<>>

size_filtered(selected_uniform_id) ==
    IF selected_uniform_id # NoneId
    THEN Filter(sizes, "uniform_id", selected_uniform_id)
    ELSE <<>>

quantity_normalized(quantity_input) ==
    IF quantity_input # <<>> THEN normalize_digits(quantity_input) ELSE <<>>

\* The quantity is validated by what int() accepts.
is_quantity_valid_mut(normalized) == int(normalized).ok

is_quantity_valid(normalized) == str_isdigit(normalized) /\ normalized # <<>>

\* The size selection is not required.
all_fields_filled_mut(applicant, location, pattern, uniform, size, quantity_valid, user_name) ==
    /\ applicant # Placeholder
    /\ location # Placeholder
    /\ pattern # Placeholder
    /\ uniform # Placeholder
    /\ quantity_valid
    /\ str_strip(user_name) # <<>>

all_fields_filled(applicant, location, pattern, uniform, size, quantity_valid, user_name) ==
    /\ applicant # Placeholder
    /\ location # Placeholder
    /\ pattern # Placeholder
    /\ uniform # Placeholder
    /\ size # Placeholder
    /\ quantity_valid
    /\ str_strip(user_name) # <<>>

\* Lines 177-180: which warning is shown.
warning(f) ==
    IF f.quantity_input # <<>> /\ ~f.is_quantity_valid THEN "quantity"
    ELSE IF /\ ~f.all_fields_filled
            /\ \/ f.selected_applicant # Placeholder
               \/ f.selected_location # Placeholder
               \/ f.quantity_input # <<>>
               \/ f.user_name_input # <<>>
         THEN "incomplete"
    ELSE "none"

\* One evaluation of lines 117-174 with the widgets holding w and
\* st.session_state.current_applicant = remembered.
Form(remembered, w) ==
    LET applicant_options ==
            create_dropdown_options(applicants, "ap_id", "ap_name", TRUE)
        w_applicant ==
            selectbox(applicant_options,
                      default_applicant_index(remembered, applicant_options),
                      w.applicant)
        location_options ==
            create_dropdown_options(locations, "location_id", "location_name", TRUE)
        w_location == selectbox(location_options, 0, w.location)
        pattern_options ==
            create_dropdown_options(patterns, "pattern_id", "pattern_name", TRUE)
        w_pattern == selectbox(pattern_options, 0, w.pattern)
        selected_pattern_id ==
            get_selected_id(patterns, "pattern_id", "pattern_name", selected(w_pattern))
        uniform_rows == uniform_filtered(selected_pattern_id)
        uniform_options ==
            create_dropdown_options(uniform_rows, "uniform_id", "uniform_name", TRUE)
        w_uniform == selectbox(uniform_options, 0, w.uniform)
        selected_uniform_id ==
            get_selected_id(uniform_rows, "uniform_id", "uniform_name", selected(w_uniform))
        size_rows == size_filtered(selected_uniform_id)
        size_options ==
            create_dropdown_options(size_rows, "size_id", "size_name", TRUE)
        w_size == selectbox(size_options, 0, w.size)
        normalized == quantity_normalized(w.quantity)
        quantity_valid == is_quantity_valid(normalized)
    IN  [widgets |-> [applicant |-> w_applicant, location |-> w_location,
                      pattern |-> w_pattern, uniform |-> w_uniform,
                      size |-> w_size, quantity |-> w.quantity,
                      user_name |-> w.user_name],
         selected_applicant |-> selected(w_applicant),
         selected_location  |-> selected(w_location),
         selected_pattern   |-> selected(w_pattern),
         selected_uniform   |-> selected(w_uniform),
         selected_size      |-> selected(w_size),
         uniform_filtered   |-> uniform_rows,
         size_filtered      |-> size_rows,
         quantity_input     |-> w.quantity,
         user_name_input    |-> w.user_name,
         quantity_normalized |-> normalized,
         is_quantity_valid  |-> quantity_valid,
         all_fields_filled  |->
             all_fields_filled(selected(w_applicant), selected(w_location),
                               selected(w_pattern), selected(w_uniform),
                               selected(w_size), quantity_valid, w.user_name)]

\* st.button(..., disabled): True in the evaluation its click triggers.
button(clicked, disabled) == clicked /\ ~disabled

-----------------------------------------------------------------------------
(* The handlers, lines 192-243 and 302-307.                                *)

\* The user name is stored as typed.
entry_mut(f) ==
    [applicant_id |-> get_selected_id(applicants, "ap_id", "ap_name", f.selected_applicant),
     applicant    |-> f.selected_applicant,
     location_id  |-> get_selected_id(locations, "location_id", "location_name",
                                      f.selected_location),
     location     |-> f.selected_location,
     pattern_id   |-> get_selected_id(patterns, "pattern_id", "pattern_name",
                                      f.selected_pattern),
     pattern      |-> f.selected_pattern,
     uniform_id   |-> get_selected_id(f.uniform_filtered, "uniform_id", "uniform_name",
                                      f.selected_uniform),
     uniform      |-> f.selected_uniform,
     size_id      |-> get_selected_id(f.size_filtered, "size_id", "size_name",
                                      f.selected_size),
     size         |-> f.selected_size,
     quantity     |-> int(f.quantity_normalized).value,
     user_name    |-> f.user_name_input]

\* Lines 194-207 and 219-232: the entry built from the form.  int() is
\* evaluated while the dict is built.
entry(f) ==
    [applicant_id |-> get_selected_id(applicants, "ap_id", "ap_name", f.selected_applicant),
     applicant    |-> f.selected_applicant,
     location_id  |-> get_selected_id(locations, "location_id", "location_name",
                                      f.selected_location),
     location     |-> f.selected_location,
     pattern_id   |-> get_selected_id(patterns, "pattern_id", "pattern_name",
                                      f.selected_pattern),
     pattern      |-> f.selected_pattern,
     uniform_id   |-> get_selected_id(f.uniform_filtered, "uniform_id", "uniform_name",
                                      f.selected_uniform),
     uniform      |-> f.selected_uniform,
     size_id      |-> get_selected_id(f.size_filtered, "size_id", "size_name",
                                      f.selected_size),
     size         |-> f.selected_size,
     quantity     |-> int(f.quantity_normalized).value,
     user_name    |-> str_strip(f.user_name_input)]

\* Lines 209-214.
add_entry_handler(ss, f) ==
    [entries           |-> Append(ss.entries, entry(f)),
     show_success      |-> ss.show_success,
     current_applicant |-> f.selected_applicant,
     reset_trigger     |-> ss.reset_trigger + 1]

\* The applicant stays remembered past the finalize.
finish_entry_handler_mut(ss, f) ==
    [entries           |-> Append(ss.entries, entry(f)),
     show_success      |-> TRUE,
     current_applicant |-> f.selected_applicant,
     reset_trigger     |-> ss.reset_trigger + 1]

\* Lines 233-240.
finish_entry_handler(ss, f) ==
    [entries           |-> Append(ss.entries, entry(f)),
     show_success      |-> TRUE,
     current_applicant |-> NoneName,
     reset_trigger     |-> ss.reset_trigger + 1]

\* Lines 303-306.
reset_handler(ss) ==
    [entries           |-> <<>>,
     show_success      |-> FALSE,
     current_applicant |-> NoneName,
     reset_trigger     |-> ss.reset_trigger + 1]

\* The result section is rendered whenever there are entries.
results_shown_mut(ss) == ss.entries # <<>>

\* Line 247: the result views and the reset button are rendered.
results_shown(ss) == ss.show_success /\ ss.entries # <<>>

\* Line 310: the table of the entries collected so far is rendered.
progress_shown(ss) == ss.entries # <<>> /\ ~ss.show_success

\* Lines 253-256 and 258-266: the columns of df_out, the seven display
\* columns under their labels (written in ASCII here) and the five identifiers.
column_order ==
    <<"applicant", "location", "pattern", "uniform", "size", "quantity",
      "user_name", "applicant_id", "location_id", "pattern_id", "uniform_id",
      "size_id">>
rename_map ==
    [c \in Range(column_order) |->
        CASE c = "applicant" -> "kihyo"
          [] c = "location"  -> "shisetsu"
          [] c = "pattern"   -> "seifuku pattern"
          [] c = "uniform"   -> "seifuku mei"
          [] c = "size"      -> "size"
          [] c = "quantity"  -> "kosuu"
          [] c = "user_name" -> "shiyousha mei"
          [] OTHER           -> c]

\* Lines 251 and 268: pd.DataFrame(entries)[column_order].rename(...): one
\* row per entry under the index 0, 1, ..., the cells in column order.
df_out(es) ==
    [columns |-> [k \in 1..Len(column_order) |-> rename_map[column_order[k]]],
     index   |-> [i \in 1..Len(es) |-> i - 1],
     rows    |-> [i \in 1..Len(es) |->
                    [k \in 1..Len(column_order) |-> es[i][column_order[k]]]]]

\* Lines 277-279: to_csv(index=False): the header line, then a line per row.
csv_data(df) == <<df.columns>> \o df.rows

\* The text lines are numbered by the row index.
text_output_mut(df) ==
    [i \in 1..Len(df.rows) |->
        [number |-> df.index[i],
         fields |-> [k \in 1..7 |-> <<df.columns[k], df.rows[i][k]>>]]]

\* Lines 290-297: a line "[i+1] label:value / ..." per row of df_out, over
\* the seven display columns.
text_output(df) ==
    [i \in 1..Len(df.rows) |->
        [number |-> df.index[i] + 1,
         fields |-> [k \in 1..7 |-> <<df.columns[k], df.rows[i][k]>>]]]

NoViews == [table |-> <<>>, csv |-> <<>>, text |-> <<>>]

\* Lines 247-299: the three views, where the result section is rendered.
Views(ss, completed) ==
    IF completed /\ results_shown(ss)
    THEN [table |-> df_out(ss.entries).rows,
          csv   |-> csv_data(df_out(ss.entries)),
          text  |-> text_output(df_out(ss.entries))]
    ELSE NoViews

\* What an evaluation renders; `completed` is FALSE when it stopped in a handler.
Page(ss, f, completed) ==
    [form            |-> TRUE,
     error           |-> "none",
     warning         |-> warning(f),
     add_disabled    |-> ~f.all_fields_filled,
     finish_disabled |-> ~f.all_fields_filled,
     results         |-> completed /\ results_shown(ss),
     progress        |-> completed /\ progress_shown(ss),
     views           |-> Views(ss, completed)]

\* What an evaluation renders that ends in load_master_data: the error
\* message of line 59 for a missing file, nothing of the form.
FatalPage(outcome) ==
    [form            |-> FALSE,
     error           |-> IF outcome = "stopped" THEN "master file not found" ELSE "none",
     warning         |-> "none",
     add_disabled    |-> TRUE,
     finish_disabled |-> TRUE,
     results         |-> FALSE,
     progress        |-> FALSE,
     views           |-> NoViews]

\* An evaluation that ends at line 106: no widget is created and
\* st.session_state is as lines 93-103 left it.
Fatal(ss, outcome) ==
    [session |-> ss, widgets |-> NoWidgets,
     page |-> FatalPage(outcome), exception |-> outcome = "exception"]

\* An evaluation in which no handler runs.
Render(ss, w) ==
    LET f == Form(ss.current_applicant, w)
    IN  [session |-> ss, widgets |-> f.widgets,
         page |-> Page(ss, f, TRUE), exception |-> FALSE]

\* An evaluation whose handler raised: st.session_state and the widgets are
\* as before, nothing below the handler is rendered.
Raised(ss, f) ==
    [session |-> ss, widgets |-> f.widgets,
     page |-> Page(ss, f, FALSE), exception |-> TRUE]

\* One evaluation of the whole script with the widgets holding w and the
\* button `clicked` ("add_btn", "finish_btn", "reset", "none") pressed,
\* followed by the evaluation that st.rerun() starts, with the widgets of the
\* new keys.
Script(ss, w, clicked) ==
    LET f == Form(ss.current_applicant, w)
        add_entry    == button(clicked = "add_btn", ~f.all_fields_filled)
        finish_entry == button(clicked = "finish_btn", ~f.all_fields_filled)
        loading      == load_master_data(files, [applicants |-> applicants,
                            locations |-> locations, patterns |-> patterns,
                            sizes |-> sizes, uniforms |-> uniforms])
    IN  IF loading.outcome # "loaded"
        THEN Fatal(ss, loading.outcome)
        ELSE IF add_entry /\ f.all_fields_filled
        THEN IF int(f.quantity_normalized).ok
             THEN Render(add_entry_handler(ss, f), NoWidgets)
             ELSE Raised(ss, f)
        ELSE IF finish_entry /\ f.all_fields_filled
        THEN IF int(f.quantity_normalized).ok
             THEN Render(finish_entry_handler(ss, f), NoWidgets)
             ELSE Raised(ss, f)
        ELSE IF results_shown(ss) /\ clicked = "reset"
        THEN Render(reset_handler(ss), NoWidgets)
        ELSE Render(ss, w)

-----------------------------------------------------------------------------
Session ==
    [entries |-> entries, show_success |-> show_success,
     current_applicant |-> current_applicant, reset_trigger |-> reset_trigger]

\* The state after an evaluation.
Becomes(r) ==
    /\ entries' = r.session.entries
    /\ show_success' = r.session.show_success
    /\ current_applicant' = r.session.current_applicant
    /\ reset_trigger' = r.session.reset_trigger
    /\ widgets' = r.widgets
    /\ page' = r.page
    /\ exception' = r.exception
    /\ UNCHANGED <<master, files, probe>>

\* Session start: the tables are loaded, st.session_state is initialised
\* (lines 93-103) and the script is evaluated once.
Init ==
    /\ \E m \in MasterSnapshots :
          /\ applicants = m.applicants
          /\ locations = m.locations
          /\ patterns = m.patterns
          /\ sizes = m.sizes
          /\ uniforms = m.uniforms
    /\ files = AllFilesOk
    /\ probe = NoProbe
    /\ entries = <<>>
    /\ show_success = FALSE
    /\ reset_trigger = 0
    /\ current_applicant = NoneName
    /\ LET r == Render([entries |-> <<>>, show_success |-> FALSE,
                        current_applicant |-> NoneName, reset_trigger |-> 0],
                       NoWidgets)
       IN  widgets = r.widgets /\ page = r.page /\ exception = r.exception

\* Session start with the files in any state: the first evaluation runs
\* lines 93-106 and goes on to the form only if every file is read.
InitLoad ==
    \E m \in MasterSnapshots, fs \in [Range(FileOrder) -> FileStates] :
        LET loading == load_master_data(fs, m)
            ss0 == [entries |-> <<>>, show_success |-> FALSE,
                    current_applicant |-> NoneName, reset_trigger |-> 0]
        IN  /\ files = fs
            /\ probe = NoProbe
            /\ applicants = loading.tables.applicants
            /\ locations = loading.tables.locations
            /\ patterns = loading.tables.patterns
            /\ sizes = loading.tables.sizes
            /\ uniforms = loading.tables.uniforms
            /\ entries = ss0.entries
            /\ show_success = ss0.show_success
            /\ reset_trigger = ss0.reset_trigger
            /\ current_applicant = ss0.current_applicant
            /\ LET r == IF loading.outcome = "loaded"
                        THEN Render(ss0, NoWidgets)
                        ELSE Fatal(ss0, loading.outcome)
               IN  widgets = r.widgets /\ page = r.page /\ exception = r.exception

\* The script is evaluated again with nothing changed (the page's rerun).
rerun == Becomes(Script(Session, widgets, "none"))

\* The user picks another option of a dropdown.
Select(name) ==
    \E i \in 0..(Len(widgets[name].options) - 1) :
        /\ i # widgets[name].index
        /\ Becomes(Script(Session, [widgets EXCEPT ![name].index = i], "none"))

select_applicant == Select("applicant")
select_location  == Select("location")
select_pattern   == Select("pattern")
select_uniform   == Select("uniform")
select_size      == Select("size")

\* The user edits a text field.
input_quantity ==
    \E t \in QuantityTexts :
        /\ page.form
        /\ t # widgets.quantity
        /\ Becomes(Script(Session, [widgets EXCEPT !.quantity = t], "none"))

input_user_name ==
    \E t \in UserNameTexts :
        /\ page.form
        /\ t # widgets.user_name
        /\ Becomes(Script(Session, [widgets EXCEPT !.user_name = t], "none"))

\* The user presses a button of the form; a disabled button does not fire.
click_add_btn ==
    /\ page.form
    /\ reset_trigger < MaxTrigger
    /\ Becomes(Script(Session, widgets, "add_btn"))

click_finish_btn ==
    /\ page.form
    /\ reset_trigger < MaxTrigger
    /\ Becomes(Script(Session, widgets, "finish_btn"))

\* The user presses the reset button, which exists only where the last
\* evaluation rendered it.
click_reset ==
    /\ page.results
    /\ reset_trigger < MaxTrigger
    /\ Becomes(Script(Session, widgets, "reset"))

Next ==
    \/ select_applicant
    \/ select_location
    \/ select_pattern
    \/ select_uniform
    \/ select_size
    \/ input_quantity
    \/ input_user_name
    \/ click_add_btn
    \/ click_finish_btn
    \/ click_reset
    \/ rerun

Spec == Init /\ [][Next]_vars

\* The same session, started with the master files in any state.
SpecLoad == InitLoad /\ [][Next]_vars

-----------------------------------------------------------------------------
(* The helpers applied on their own, to arguments the form may not give.  *)

\* "0", "9", the full-width "0" and "9", the characters just before and just
\* after the full-width digits, and "a".
ProbeAlphabet == {48, 57, 65295, 65296, 65305, 65306, 97}
ProbeTexts == UNION {[1..k -> ProbeAlphabet] : k \in 0..MaxLen}

\* The five tables with their identifier and name columns.
ProbeTables ==
    {[df |-> applicants, id_col |-> "ap_id", name_col |-> "ap_name"],
     [df |-> locations, id_col |-> "location_id", name_col |-> "location_name"],
     [df |-> patterns, id_col |-> "pattern_id", name_col |-> "pattern_name"],
     [df |-> uniforms, id_col |-> "uniform_id", name_col |-> "uniform_name"],
     [df |-> sizes, id_col |-> "size_id", name_col |-> "size_name"]}

\* The names of a table, the placeholder, None and a name of no row.
ProbeNames(t) ==
    {t.df[i][t.name_col] : i \in 1..Len(t.df)} \cup {Placeholder, NoneName, "Nobody"}

probe_get_selected_id ==
    /\ probe = NoProbe
    /\ \E t \in ProbeTables : \E name \in ProbeNames(t) :
          probe' = [fn |-> "get_selected_id", df |-> t.df, id_col |-> t.id_col,
                    name_col |-> t.name_col, selected_name |-> name,
                    result |-> get_selected_id(t.df, t.id_col, t.name_col, name)]
    /\ UNCHANGED <<master, session, widgets, page, exception, files>>

probe_normalize_digits ==
    /\ probe = NoProbe
    /\ \E t \in ProbeTexts :
          probe' = [fn |-> "normalize_digits", s |-> t, result |-> normalize_digits(t)]
    /\ UNCHANGED <<master, session, widgets, page, exception, files>>

NextProbe == probe_get_selected_id \/ probe_normalize_digits

SpecFunctions == Init /\ [][NextProbe]_vars

-----------------------------------------------------------------------------
(* The values the script reads from the widgets in the current state.      *)

selected_applicant == selected(widgets.applicant)
selected_location  == selected(widgets.location)
selected_pattern   == selected(widgets.pattern)
selected_uniform   == selected(widgets.uniform)
selected_size      == selected(widgets.size)
quantity_input     == widgets.quantity
user_name_input    == widgets.user_name

LastEntry(es) == es[Len(es)]

\* A step of the add-and-continue or finalize button that appended an entry.
Appended == entries' # entries /\ entries' # <<>>

\* Every field of the pending form except the applicant is empty.
FormClearedButApplicant ==
    /\ selected_location = Placeholder
    /\ selected_pattern = Placeholder
    /\ selected_uniform = Placeholder
    /\ selected_size = Placeholder
    /\ quantity_input = <<>>
    /\ user_name_input = <<>>

-----------------------------------------------------------------------------
\* C1: whenever the pattern selection changes, the uniform selection and the
\* size selection are the placeholder in the next evaluation.
C1_PatternChangeResets ==
    [][selected_pattern' # selected_pattern
         => selected_uniform' = Placeholder /\ selected_size' = Placeholder]_vars

\* C2: whenever the uniform selection changes with the pattern unchanged and
\* a size selected, the size selection is the placeholder in the next
\* evaluation.
C2_UniformChangeResets ==
    [][/\ selected_uniform' # selected_uniform
       /\ selected_pattern' = selected_pattern
       /\ selected_size # Placeholder
         => selected_size' = Placeholder]_vars

\* C3: every entry has its five identifiers resolved to rows of the master
\* tables, its uniform belongs to its pattern and its size to its uniform.
C3_EntryIdsConsistent ==
    \A i \in 1..Len(entries) :
        LET e == entries[i]
        IN  /\ \E r \in Range(applicants) : r.ap_id = e.applicant_id
            /\ \E r \in Range(locations) : r.location_id = e.location_id
            /\ \E r \in Range(patterns) : r.pattern_id = e.pattern_id
            /\ \E r \in Range(uniforms) :
                  r.uniform_id = e.uniform_id /\ r.pattern_id = e.pattern_id
            /\ \E r \in Range(sizes) :
                  r.size_id = e.size_id /\ r.uniform_id = e.uniform_id
            /\ NoneId \notin {e.applicant_id, e.location_id, e.pattern_id,
                              e.uniform_id, e.size_id}

\* An entry for the second of two uniforms that share their display name, and
\* for the second of two applicants that share theirs.
C3_Witness ==
    /\ \E i \in 1..Len(entries) :
          /\ entries[i].pattern = "Winter"
          /\ entries[i].uniform = "Shirt"
          /\ entries[i].uniform_id = 2
          /\ entries[i].size_id = 2
    /\ Len(applicants) = 2 /\ applicants[1].ap_name = applicants[2].ap_name

\* C4 as stated: the quantity of every entry is a positive integer.
C4_QuantityPositive ==
    \A i \in 1..Len(entries) : entries[i].quantity \in Nat \ {0}

\* C4 as amended: the quantity of every entry is a natural number (zero is
\* accepted), never negative.
C4_QuantityNatural ==
    \A i \in 1..Len(entries) : entries[i].quantity \in Nat

\* An entry of quantity 0 and an entry of quantity 12.
C4_Witness ==
    /\ \E i \in 1..Len(entries) : entries[i].quantity = 0
    /\ \E i \in 1..Len(entries) : entries[i].quantity = 12

\* C5: once show_success is set, entries and the remembered applicant change
\* only by the reset that clears show_success.
C5_ReviewingReadOnly ==
    [][show_success /\ show_success'
         => entries' = entries /\ current_applicant' = current_applicant]_vars

\* C6: no evaluation of the script ends in an uncaught exception.
C6_NoException == ~exception

\* C7: an effective add-and-continue appends exactly one entry behind the
\* unchanged earlier ones and leaves show_success false; an effective
\* finalize appends the same way and leaves show_success true.
C7_AppendOne ==
    [][/\ (click_add_btn \/ click_finish_btn) /\ Appended
             => /\ Len(entries') = Len(entries) + 1
                /\ SubSeq(entries', 1, Len(entries)) = entries
       /\ click_add_btn /\ Appended => ~show_success'
       /\ click_finish_btn /\ Appended => show_success']_vars

\* The value of a text of ASCII and full-width digits, read as a decimal
\* numeral: the digit at position i counts 10^(Len - i) times.
RECURSIVE Pow10(_)
Pow10(n) == IF n = 0 THEN 1 ELSE 10 * Pow10(n - 1)

DigitOf(ch) == IF ch >= 65296 THEN ch - 65296 ELSE ch - 48

RECURSIVE NumeralValue(_, _)
NumeralValue(t, i) ==
    IF i > Len(t) THEN 0
    ELSE DigitOf(t[i]) * Pow10(Len(t) - i) + NumeralValue(t, i + 1)

\* name is typed with nothing but whitespace before and after it removed.
TrimOf(typed, name) ==
    /\ name # <<>>
    /\ ~IsSpaceChar(name[1]) /\ ~IsSpaceChar(name[Len(name)])
    /\ \E a \in 0..Len(typed) :
          /\ a + Len(name) <= Len(typed)
          /\ SubSeq(typed, a + 1, a + Len(name)) = name
          /\ \A k \in 1..Len(typed) :
                (k <= a \/ k > a + Len(name)) => IsSpaceChar(typed[k])

\* C8: the entry that add-and-continue or finalize appends carries the five
\* selected display names, the value of the quantity text read as a decimal
\* numeral after digit normalisation, and the typed user name trimmed, which
\* is not empty.
C8_EntryRecordsForm ==
    [][(click_add_btn \/ click_finish_btn) /\ Appended
         => LET e == LastEntry(entries')
            IN  /\ e.applicant = selected_applicant
                /\ e.location = selected_location
                /\ e.pattern = selected_pattern
                /\ e.uniform = selected_uniform
                /\ e.size = selected_size
                /\ e.quantity = NumeralValue(quantity_input, 1)
                /\ TrimOf(user_name_input, e.user_name)]_vars

\* An entry of quantity 12 (typed "1" and a full-width "2") whose user name
\* was typed between spaces, for applicant Sato.
C8_Witness ==
    \E i \in 1..Len(entries) :
        /\ entries[i].quantity = 12
        /\ entries[i].user_name = <<83>>
        /\ entries[i].applicant = "Sato"
        /\ entries[i].size = "M"

\* C9: after an effective add-and-continue the applicant of the pending form
\* is the applicant of the entry just appended and every other field is
\* empty; after an effective finalize or reset every field is empty.
C9_NextFormPrefill ==
    [][/\ click_add_btn /\ Appended
             => /\ selected_applicant' = LastEntry(entries').applicant
                /\ selected_applicant' = selected_applicant
                /\ FormClearedButApplicant'
       /\ (click_finish_btn /\ Appended) \/ (click_reset /\ entries' = <<>>)
             => /\ selected_applicant' = Placeholder
                /\ FormClearedButApplicant']_vars

\* The form right after an add-and-continue for the second applicant.
C9_Witness ==
    /\ entries # <<>>
    /\ current_applicant = "Sato"
    /\ selected_applicant = "Sato"
    /\ LastEntry(entries).applicant = "Sato"
    /\ FormClearedButApplicant

\* Some field of the pending form is not filled: a dropdown shows the
\* placeholder, the quantity is empty or holds a character that is no digit,
\* or the user name is empty or blank.
FormIncomplete ==
    \/ Placeholder \in {selected_applicant, selected_location, selected_pattern,
                        selected_uniform, selected_size}
    \/ quantity_input = <<>>
    \/ \E i \in 1..Len(quantity_input) : ~IsDigitChar(quantity_input[i])
    \/ \A i \in 1..Len(user_name_input) : IsSpaceChar(user_name_input[i])

\* C10: while the pending form is incomplete both buttons are disabled, and
\* pressing either changes neither the session state nor the form.
C10_IncompleteIsNoOp ==
    /\ [](FormIncomplete => page.add_disabled /\ page.finish_disabled)
    /\ [][FormIncomplete /\ (click_add_btn \/ click_finish_btn)
            => UNCHANGED <<session, widgets, page>>]_vars

\* Everything but the size is filled in, with entries already collected.
C10_Witness ==
    /\ selected_size = Placeholder
    /\ Placeholder \notin {selected_applicant, selected_location,
                           selected_pattern, selected_uniform}
    /\ quantity_input = <<49, 65298>>
    /\ user_name_input = <<12288, 83, 32>>
    /\ entries # <<>>
    /\ page.add_disabled /\ page.finish_disabled

-----------------------------------------------------------------------------
\* C11: the reset button exists only while show_success is set, and a reset
\* leaves entries empty, the remembered applicant unset and show_success
\* cleared; while show_success is clear nothing empties entries.
C11_ResetOnlyInReviewing ==
    /\ [](page.results => show_success)
    /\ [][click_reset \/ (entries # <<>> /\ entries' = <<>>)
            => /\ show_success
               /\ entries' = <<>>
               /\ current_applicant' = NoneName
               /\ ~show_success']_vars

\* The session after finalize and reset: collecting again, nothing kept.
C11_Witness ==
    /\ reset_trigger = 2
    /\ entries = <<>>
    /\ ~show_success
    /\ current_applicant = NoneName
    /\ ~page.results

-----------------------------------------------------------------------------
\* The digit-normalized quantity text is non-empty and all ASCII digits 0-9.
AsciiDigitQuantity ==
    LET normalized == normalize_digits(quantity_input)
    IN  /\ normalized # <<>>
        /\ \A i \in 1..Len(normalized) : normalized[i] \in 48..57

-----------------------------------------------------------------------------
\* The cells of the export row of entry e, display columns first.
ExportRow(e) ==
    <<e.applicant, e.location, e.pattern, e.uniform, e.size, e.quantity,
      e.user_name, e.applicant_id, e.location_id, e.pattern_id, e.uniform_id,
      e.size_id>>

\* C13: where the result section is rendered over n entries, the table, the
\* CSV export (below its header line) and the text block each hold exactly n
\* rows, row k being entry k, text line k is numbered k, and an evaluation
\* that only renders leaves entries as they were.
C13_ViewsFollowEntries ==
    /\ [](page.results =>
            LET n == Len(entries)
                v == page.views
            IN  /\ show_success
                /\ Len(v.table) = n /\ Len(v.csv) = n + 1 /\ Len(v.text) = n
                /\ \A k \in 1..n :
                      /\ v.table[k] = ExportRow(entries[k])
                      /\ v.csv[k + 1] = ExportRow(entries[k])
                      /\ v.text[k].number = k
                      /\ \A c \in 1..7 :
                            v.text[k].fields[c][2] = ExportRow(entries[k])[c])
    /\ [][rerun => entries' = entries]_vars

\* Two different entries under review.
C13_Witness ==
    /\ page.results
    /\ Len(entries) = 2
    /\ entries[1] # entries[2]
    /\ page.views.text[2].number = 2

-----------------------------------------------------------------------------
\* options is the placeholder followed by the names of the rows of table
\* whose position is in keep, in table order.
ListsRows(options, table, name_col, keep) ==
    /\ Len(options) = 1 + Cardinality(keep)
    /\ options[1] = Placeholder
    /\ \E pos \in [1..Cardinality(keep) -> keep] :
          /\ \A j, k \in 1..Cardinality(keep) : j < k => pos[j] < pos[k]
          /\ \A j \in 1..Cardinality(keep) :
                options[j + 1] = table[pos[j]][name_col]

\* The positions of the rows of table whose fk_col is the identifier of the
\* first row of parent named name; none when name is the placeholder.
ChildrenOf(table, fk_col, parent, parent_id_col, parent_name_col, name) ==
    LET named == {i \in 1..Len(parent) : parent[i][parent_name_col] = name}
        first == CHOOSE i \in named : \A j \in named : i <= j
    IN  IF name = Placeholder \/ named = {}
        THEN {}
        ELSE {i \in 1..Len(table) :
                table[i][fk_col] = parent[first][parent_id_col]}

\* C14: every dropdown offers the placeholder first and then the names of
\* its rows in table order: all rows for applicant, location and pattern, the
\* rows of the selected pattern for the uniform, the rows of the selected
\* uniform for the size; a dependent dropdown whose parent is unselected or
\* has no rows offers the placeholder alone.
C14_OptionLists ==
    LET uniform_keep ==
            ChildrenOf(uniforms, "pattern_id", patterns, "pattern_id",
                       "pattern_name", selected_pattern)
        offered == [j \in 1..Cardinality(uniform_keep) |->
                      uniforms[CHOOSE i \in uniform_keep :
                          Cardinality({h \in uniform_keep : h <= i}) = j]]
        size_keep ==
            ChildrenOf(sizes, "uniform_id", offered, "uniform_id",
                       "uniform_name", selected_uniform)
    IN  /\ ListsRows(widgets.applicant.options, applicants, "ap_name",
                      1..Len(applicants))
        /\ ListsRows(widgets.location.options, locations, "location_name",
                      1..Len(locations))
        /\ ListsRows(widgets.pattern.options, patterns, "pattern_name",
                      1..Len(patterns))
        /\ ListsRows(widgets.uniform.options, uniforms, "uniform_name",
                      uniform_keep)
        /\ ListsRows(widgets.size.options, sizes, "size_name", size_keep)
        /\ selected_pattern = Placeholder
                => widgets.uniform.options = <<Placeholder>>
        /\ selected_uniform = Placeholder
                => widgets.size.options = <<Placeholder>>

\* A pattern without uniforms is selected while the applicant dropdown lists
\* two names.
C14_Witness ==
    /\ selected_pattern = "Winter"
    /\ \A i \in 1..Len(uniforms) : uniforms[i].pattern_id # 2
    /\ widgets.uniform.options = <<Placeholder>>
    /\ widgets.size.options = <<Placeholder>>
    /\ widgets.applicant.options = <<Placeholder, "Tanaka", "Sato">>

-----------------------------------------------------------------------------
\* C15: get_selected_id returns None for the placeholder, for None and for a
\* name of no row, and otherwise the identifier of the first row, in table
\* order, that carries the name.
C15_ResolveFirstMatch ==
    probe.fn = "get_selected_id" =>
        LET matching == {i \in 1..Len(probe.df) :
                            probe.df[i][probe.name_col] = probe.selected_name}
        IN  IF probe.selected_name \in {Placeholder, NoneName} \/ matching = {}
            THEN probe.result = NoneId
            ELSE \E i \in matching :
                    /\ \A j \in matching : i <= j
                    /\ probe.result = probe.df[i][probe.id_col]

\* A name carried by two rows with different identifiers is resolved.
C15_Witness ==
    /\ probe.fn = "get_selected_id"
    /\ probe.result # NoneId
    /\ \E i, j \in 1..Len(probe.df) :
          /\ i < j
          /\ probe.df[i][probe.name_col] = probe.selected_name
          /\ probe.df[j][probe.name_col] = probe.selected_name
          /\ probe.df[i][probe.id_col] # probe.df[j][probe.id_col]

\* C16: normalize_digits returns, for every text, a text of the same length
\* in which each full-width digit has become the ASCII digit of the same
\* value and every other character is as it was; normalizing the result
\* again changes nothing.
C16_NormalizeDigits ==
    probe.fn = "normalize_digits" =>
        /\ Len(probe.result) = Len(probe.s)
        /\ \A i \in 1..Len(probe.s) :
              IF probe.s[i] \in 65296..65305
              THEN probe.result[i] = 48 + (probe.s[i] - 65296)
              ELSE probe.result[i] = probe.s[i]
        /\ normalize_digits(probe.result) = probe.result

\* A text with the full-width zero and nine between their neighbours
\* U+FF0F and U+FF1A.
C16_Witness ==
    /\ probe.fn = "normalize_digits"
    /\ probe.s = <<65295, 65296, 65305>>
    /\ probe.result = <<65295, 48, 57>>

-----------------------------------------------------------------------------
-----------------------------------------------------------------------------
\* One of the seven fields of the pending form holds a choice or a text.
Touched ==
    \/ selected_applicant # Placeholder
    \/ selected_location # Placeholder
    \/ selected_pattern # Placeholder
    \/ selected_uniform # Placeholder
    \/ selected_size # Placeholder
    \/ quantity_input # <<>>
    \/ user_name_input # <<>>

\* C18: the quantity warning is shown exactly when a quantity is entered
\* that the validation rejects; otherwise the incomplete-fields warning is
\* shown exactly when one of the seven fields is touched while the buttons
\* are disabled; otherwise no warning is shown.
C18_Warnings ==
    LET quantity_rejected ==
            /\ quantity_input # <<>>
            /\ ~str_isdigit(normalize_digits(quantity_input))
    IN  page.warning =
            IF quantity_rejected THEN "quantity"
            ELSE IF Touched /\ page.add_disabled THEN "incomplete"
            ELSE "none"

-----------------------------------------------------------------------------
\* C19: whenever show_success is set, entries is non-empty and the result
\* section, with the export views and the reset button, is rendered.
C19_SubmittedShowsResults ==
    show_success => entries # <<>> /\ page.results

\* C20: the remembered applicant is unset, or entries is non-empty and its
\* last entry carries the remembered applicant; a finalize that appended and
\* a reset leave it unset.
C20_RememberedApplicant ==
    /\ [](\/ current_applicant = NoneName
           \/ /\ entries # <<>>
              /\ LastEntry(entries).applicant = current_applicant)
    /\ [][(click_finish_btn /\ Appended) \/ click_reset
            => current_applicant' = NoneName]_vars

\* Two entries of different applicants, the second one remembered.
C20_Witness ==
    /\ Len(entries) = 2
    /\ entries[1].applicant # entries[2].applicant
    /\ current_applicant = entries[2].applicant

====
